---- MODULE Spec2Model ----
(***************************************************************************)
(* A model of the bio_digest pipeline: the heuristic keyword engine        *)
(* (src/rules/heuristics.py), the score combiner, batch and history        *)
(* deduplication and the tiered selector (src/main.py), and the paper      *)
(* ledger (src/store/db.py).                                               *)
(*                                                                         *)
(* Texts are sequences of one-character strings, so that the regular       *)
(* expressions (\b + escaped term + \b, IGNORECASE) and the substring      *)
(* tests of the source are computed character by character.                *)
(* Scores are kept in tenths (an integer 715 stands for 71.5), so that     *)
(* 0.7 * relevance + 0.3 * heuristic is exact integer arithmetic.          *)
(***************************************************************************)
EXTENDS Integers, Sequences, FiniteSets, TLC

VARIABLES
    phase,      \* which operation has acted on the inputs of this behaviour
    text,       \* heuristics: the title+abstract text under evaluation
    hcall,      \* heuristics: the last call on text and what it returned
    hf_papers,  \* heuristics: the list handed to pre_filter
    hf_out,     \* heuristics: the list pre_filter returned
    sc_paper,   \* score combiner: the paper handed to _calculate_final_score
    sc_out,     \* score combiner: the score returned (tenths)
    fetched,    \* _fetch_papers: what each fetcher returned, in fetcher order
    all_papers, \* _fetch_papers: the list returned
    org_cfg,    \* _organize_papers: config (top_picks count, bucket names)
    org_in,     \* _organize_papers: the kept papers handed in
    org_out,    \* _organize_papers: top_picks, buckets, also_noteworthy
    db_papers,  \* ledger: table papers, arxiv_id -> version (NoRow if absent)
    recorded,   \* history: every <<arxiv_id, version>> save_papers has written
    delivered,  \* history: every <<arxiv_id, version>> in a digest that a
                \* non-force, non-test run has sent
    cls,        \* classifier: the call of classify_single in progress
    run         \* the pipeline run in progress (DigestOrchestrator.run)

vars == <<phase, text, hcall, hf_papers, hf_out, sc_paper, sc_out, fetched,
          all_papers, org_cfg, org_in, org_out, db_papers, recorded, delivered, cls, run>>

heurVars == <<text, hcall, hf_papers, hf_out>>
scoreVars == <<sc_paper, sc_out>>
fetchVars == <<fetched, all_papers>>
orgVars == <<org_cfg, org_in, org_out>>
dbVars == <<db_papers, recorded, delivered>>
clsVars == <<cls>>

None == "none"

(***************************************************************************)
(* Characters and words                                                    *)
(***************************************************************************)

\* str.lower() / re.IGNORECASE on the letters that occur in the model's texts
Lower(c) ==
    CASE c = "A" -> "a"
      [] c = "I" -> "i"
      [] OTHER -> c

\* \w of the regular expressions: letters, digits, underscore (not the space)
IsWordChar(c) == c # " " /\ c # "-"

LowerText(s) == [i \in 1..Len(s) |-> Lower(s[i])]

\* the character at position i is a word character (positions outside: no)
IsWordAt(s, i) == i >= 1 /\ i <= Len(s) /\ IsWordChar(s[i])

\* \b between positions i-1 and i
Boundary(s, i) == IsWordAt(s, i - 1) # IsWordAt(s, i)

\* the literal term occurs at position i, ignoring case
LiteralAt(term, s, i) ==
    /\ i + Len(term) - 1 <= Len(s)
    /\ \A k \in 1..Len(term) : Lower(s[i + k - 1]) = Lower(term[k])

\* re.compile(r'\b' + re.escape(term) + r'\b', re.IGNORECASE) matches at i
MatchAt(term, s, i) ==
    /\ LiteralAt(term, s, i)
    /\ Boundary(s, i)
    /\ Boundary(s, i + Len(term))

\* pattern.search(text) is not None
Search(term, s) == \E i \in 1..Len(s) : MatchAt(term, s, i)

\* len(pattern.findall(text)): non-overlapping matches, scanning left to right
RECURSIVE FindAllFrom(_, _, _)
FindAllFrom(term, s, i) ==
    IF i > Len(s) THEN 0
    ELSE IF MatchAt(term, s, i)
         THEN 1 + FindAllFrom(term, s, i + Len(term))
         ELSE FindAllFrom(term, s, i + 1)

FindAll(term, s) == FindAllFrom(term, s, 1)

\* term in text_lower (plain substring test, case-sensitive on the lowered text)
SubstringIn(term, s) ==
    \E i \in 1..Len(s) :
        /\ i + Len(term) - 1 <= Len(s)
        /\ \A k \in 1..Len(term) : s[i + k - 1] = term[k]

(***************************************************************************)
(* Terms and texts                                                         *)
(***************************************************************************)

W_ai == <<"a", "i">>
W_AI == <<"A", "I">>
W_pain == <<"p", "a", "i", "n">>
W_drug == <<"d", "r", "u", "g">>
W_zoo == <<"z", "o", "o">>
W_mouse == <<"m", "o", "u", "s", "e">>
W_gan == <<"g", "a", "n">>

\* the configuration read by HeuristicFilter.__init__ (config.yaml is not part
\* of the sources; these are the term lists the model runs with)
BoostTerms ==
    [high |-> <<W_ai>>, medium |-> <<W_drug>>, low |-> <<W_gan>>]
BoostLevels == {"high", "medium", "low"}
DropTerms == <<W_zoo>>
GreylistTerms == <<W_mouse>>
GreylistKeepKeywords == <<W_gan>>
Buckets ==
    << [name |-> "B1", keywords |-> <<W_drug>>],
       [name |-> "B2", keywords |-> <<W_ai, W_mouse>>] >>

\* the two literal lists of _calculate_score
AiTerms ==
    << <<"m", "a", "c", "h", "i", "n", "e", " ", "l", "e", "a", "r", "n", "i", "n", "g">>,
       <<"d", "e", "e", "p", " ", "l", "e", "a", "r", "n", "i", "n", "g">>,
       <<"n", "e", "u", "r", "a", "l", " ", "n", "e", "t", "w", "o", "r", "k">>,
       <<"a", "i">> >>
ClinicalTerms ==
    << <<"m", "e", "d", "i", "c", "a", "l">>,
       <<"c", "l", "i", "n", "i", "c", "a", "l">>,
       <<"p", "a", "t", "i", "e", "n", "t">>,
       <<"d", "r", "u", "g">>,
       <<"p", "r", "o", "t", "e", "i", "n">>,
       <<"d", "i", "a", "g", "n", "o", "s", "t", "i", "c">>,
       <<"h", "e", "a", "l", "t", "h", "c", "a", "r", "e">> >>

\* the words the model's titles and abstracts are made of
Vocabulary == {W_ai, W_AI, W_pain, W_drug, W_zoo, W_mouse, W_gan}

\* the longest abstract, in words
MaxAbsWords == 2

RECURSIVE JoinWords(_)
JoinWords(ws) ==
    IF Len(ws) = 0 THEN <<>>
    ELSE IF Len(ws) = 1 THEN ws[1]
    ELSE ws[1] \o <<" ">> \o JoinWords(Tail(ws))

WordSeqs(n) == UNION {[1..k -> Vocabulary] : k \in 0..n}

\* text = f"{paper['title']} {paper['abstract']}"
PaperText(p) == p.title \o <<" ">> \o p.abstract

\* "deep learning neural network diagnosis patient"
ExampleText ==
    <<"d", "e", "e", "p", " ", "l", "e", "a", "r", "n", "i", "n", "g", " ",
      "n", "e", "u", "r", "a", "l", " ", "n", "e", "t", "w", "o", "r", "k", " ",
      "d", "i", "a", "g", "n", "o", "s", "i", "s", " ",
      "p", "a", "t", "i", "e", "n", "t">>

\* a text whose term matches add up to more than 100
LongText == JoinWords(<<W_ai, W_ai, W_ai, W_ai, W_ai, W_drug>>)

Texts ==
    {PaperText([title |-> t, abstract |-> JoinWords(ws)]) :
        t \in Vocabulary, ws \in WordSeqs(MaxAbsWords)}
    \cup {ExampleText, LongText}

(***************************************************************************)
(* HeuristicFilter (src/rules/heuristics.py)                               *)
(***************************************************************************)

AnyMatch(terms, s) == \E k \in 1..Len(terms) : Search(terms[k], s)

RECURSIVE SumMatches(_, _, _)
SumMatches(terms, s, k) ==
    IF k > Len(terms) THEN 0
    ELSE FindAll(terms[k], s) + SumMatches(terms, s, k + 1)

Min(a, b) == IF a <= b THEN a ELSE b
Max(a, b) == IF a >= b THEN a ELSE b

_has_boost(s) == \E level \in BoostLevels : AnyMatch(BoostTerms[level], s)

\* mutant: the drop rule without the boost-term override
_should_drop_no_override(s) == AnyMatch(DropTerms, s)

_should_drop(s) ==
    LET has_drop == AnyMatch(DropTerms, s)
    IN  IF ~has_drop THEN FALSE
        ELSE IF _has_boost(s) THEN FALSE
        ELSE TRUE

_is_greylisted(s) == AnyMatch(GreylistTerms, s)

_has_transferable_methods(s) == AnyMatch(GreylistKeepKeywords, s)

\* the co-occurrence test of _calculate_score: substring tests on text.lower()
_cooccurrence(s) ==
    LET text_lower == LowerText(s)
    IN  /\ \E k \in 1..Len(AiTerms) : SubstringIn(AiTerms[k], text_lower)
        /\ \E k \in 1..Len(ClinicalTerms) : SubstringIn(ClinicalTerms[k], text_lower)

\* the score before the cap, in points
_raw_score(s) ==
    SumMatches(BoostTerms.high, s, 1) * 20
    + SumMatches(BoostTerms.medium, s, 1) * 10
    + SumMatches(BoostTerms.low, s, 1) * 5
    + (IF _cooccurrence(s) THEN 20 ELSE 0)

\* returns the heuristic score in points (0..100)
_calculate_score(s) == Min(_raw_score(s), 100)

RECURSIVE DetectFrom(_, _)
DetectFrom(s, k) ==
    IF k > Len(Buckets) THEN <<>>
    ELSE (IF \E j \in 1..Len(Buckets[k].keywords) : Search(Buckets[k].keywords[j], s)
          THEN <<Buckets[k].name>> ELSE <<>>)
         \o DetectFrom(s, k + 1)

_detect_buckets(s) == DetectFrom(s, 1)

\* mutant: greylisted papers pass without the transferable-method test
PreFilterOne_no_gate(paper) ==
    LET s == PaperText(paper)
    IN  IF _should_drop(s) THEN <<>>
        ELSE << [paper EXCEPT
                   !.greylisted = IF _is_greylisted(s) THEN TRUE ELSE @,
                   !.heuristic_score = _calculate_score(s),
                   !.detected_buckets = _detect_buckets(s)] >>

\* one iteration of pre_filter's loop: the papers appended to filtered
PreFilterOne(paper) ==
    LET s == PaperText(paper)
    IN  IF _should_drop(s) THEN <<>>
        ELSE IF _is_greylisted(s) /\ ~_has_transferable_methods(s) THEN <<>>
        ELSE << [paper EXCEPT
                   !.greylisted = IF _is_greylisted(s) THEN TRUE ELSE @,
                   !.heuristic_score = _calculate_score(s),
                   !.detected_buckets = _detect_buckets(s)] >>

RECURSIVE pre_filter(_)
pre_filter(papers) ==
    IF Len(papers) = 0 THEN <<>>
    ELSE PreFilterOne(Head(papers)) \o pre_filter(Tail(papers))


(***************************************************************************)
(* Inputs of the heuristic engine                                          *)
(***************************************************************************)

\* the longest list handed to pre_filter
MaxBatch == 2

\* titles and abstracts of the papers handed to pre_filter: every combination
\* of hard-drop / greylist / neutral title with no, low-boost (and
\* transferable-method) or high-boost abstract
PFTitles == {W_zoo, W_mouse, W_pain}
PFAbstracts == {<<>>, W_gan, W_AI}

\* a paper as a fetcher hands it over; obj is the identity of the dict object
\* (its position in the input list); an absent key holds the default that
\* paper.get() gives it
NewPaper(i, t, a) ==
    [obj |-> i, title |-> t, abstract |-> a, greylisted |-> FALSE,
     heuristic_score |-> 0, detected_buckets |-> <<>>]

PFBatch(ts, as) == [i \in 1..Len(ts) |-> NewPaper(i, ts[i], as[i])]

NoCall == [fn |-> None, result |-> None]

HeurIdle ==
    /\ text = <<>>
    /\ hcall = NoCall
    /\ hf_papers = <<>>
    /\ hf_out = <<>>


(***************************************************************************)
(* Score combiner (DigestOrchestrator._calculate_final_score)              *)
(***************************************************************************)

\* truthiness of an optional URL string (absent key: None)
HasUrl(u) == u # None /\ u # ""

\* the score after the weighted sum, bonuses and penalties, before the clamp;
\* in tenths of a point (relevance_score and heuristic_score are in points)
_unclamped_score(paper) ==
    LET s0 == paper.relevance_score * 7 + paper.heuristic_score * 3
        s1 == IF Len(paper.code_urls) > 0 THEN s0 + 50 ELSE s0
        s2 == IF Len(paper.dataset_urls) > 0 THEN s1 + 30 ELSE s1
        s3 == IF HasUrl(paper.figure_url) THEN s2 + 20 ELSE s2
        s4 == IF HasUrl(paper.x_url) THEN s3 + 20 ELSE s3
        s5 == IF "sim-only" \in paper.risk_flags THEN s4 - 100 ELSE s4
        s6 == IF "no-code" \in paper.risk_flags THEN s5 - 50 ELSE s5
        s7 == IF paper.greylisted THEN s6 - 150 ELSE s6
    IN  s7

\* mutant: the lower clamp is missing
_calculate_final_score_no_floor(paper) == Min(1000, _unclamped_score(paper))

\* mutant: the score is clamped after the bonuses and again after the penalties
_calculate_final_score_clamp_twice(paper) ==
    LET s0 == paper.relevance_score * 7 + paper.heuristic_score * 3
        s1 == IF Len(paper.code_urls) > 0 THEN s0 + 50 ELSE s0
        s2 == IF Len(paper.dataset_urls) > 0 THEN s1 + 30 ELSE s1
        s3 == IF HasUrl(paper.figure_url) THEN s2 + 20 ELSE s2
        s4 == IF HasUrl(paper.x_url) THEN s3 + 20 ELSE s3
        c4 == Max(0, Min(1000, s4))
        s5 == IF "sim-only" \in paper.risk_flags THEN c4 - 100 ELSE c4
        s6 == IF "no-code" \in paper.risk_flags THEN s5 - 50 ELSE s5
        s7 == IF paper.greylisted THEN s6 - 150 ELSE s6
    IN  Max(0, Min(1000, s7))

\* return max(0, min(100, score)), in tenths
_calculate_final_score(paper) == Max(0, Min(1000, _unclamped_score(paper)))

\* relevance scores the classifier may hand over (points); classify_single
\* clamps them to 0..100, the values outside are what an unclamped annotation
\* would carry
RelevanceScores == {0 - 20, 0, 30, 50, 80, 100, 130}
HeuristicScores == {0, 50, 100}

ScorePapers ==
    [relevance_score : RelevanceScores,
     heuristic_score : HeuristicScores,
     code_urls : {<<>>, <<"x">>},
     dataset_urls : {<<>>, <<"d">>},
     figure_url : {None, "fig"},
     x_url : {None, "post"},
     risk_flags : SUBSET {"sim-only", "no-code"},
     greylisted : BOOLEAN]

NoPaper == [relevance_score |-> 0]

ScoreIdle ==
    /\ sc_paper = NoPaper
    /\ sc_out = 0 - 1


(***************************************************************************)
(* Batch-level deduplication (DigestOrchestrator._fetch_papers)            *)
(***************************************************************************)

\* identifiers and titles are strings (sequences of characters); an absent or
\* empty one is the empty string (paper.get() gives None, as falsy as '')
Empty == <<>>
IdX == <<"x">>
IdY == <<"y">>

\* mutant: the source-native arxiv_id is tried before the DOI
PaperId_arxiv_first(paper) ==
    IF paper.arxiv_id # Empty THEN paper.arxiv_id
    ELSE IF paper.doi # Empty THEN paper.doi
    ELSE IF paper.pubmed_id # Empty THEN paper.pubmed_id
    ELSE IF paper.biorxiv_id # Empty THEN paper.biorxiv_id
    ELSE paper.title

\* paper_id: the first truthy of doi, arxiv_id, pubmed_id, biorxiv_id, title
PaperId(paper) ==
    IF paper.doi # Empty THEN paper.doi
    ELSE IF paper.arxiv_id # Empty THEN paper.arxiv_id
    ELSE IF paper.pubmed_id # Empty THEN paper.pubmed_id
    ELSE IF paper.biorxiv_id # Empty THEN paper.biorxiv_id
    ELSE paper.title

\* mutant: a record that is skipped is not remembered, but neither is one kept
DedupRecord_forgetful(acc, paper) ==
    LET paper_id == PaperId(paper)
    IN  IF paper_id # Empty /\ paper_id \notin acc.seen_ids
        THEN [seen_ids |-> acc.seen_ids,
              all_papers |-> Append(acc.all_papers,
                  [paper EXCEPT !.arxiv_id = IF @ = Empty THEN paper_id ELSE @])]
        ELSE acc

\* mutant: an absent arxiv_id is filled with the title, not with paper_id
DedupRecord_fill_title(acc, paper) ==
    LET paper_id == PaperId(paper)
    IN  IF paper_id # Empty /\ paper_id \notin acc.seen_ids
        THEN [seen_ids |-> acc.seen_ids \cup {paper_id},
              all_papers |-> Append(acc.all_papers,
                  [paper EXCEPT !.arxiv_id = IF @ = Empty THEN paper.title ELSE @])]
        ELSE acc

\* the body of the loop over one fetcher's papers
DedupRecord(acc, paper) ==
    LET paper_id == PaperId(paper)
    IN  IF paper_id # Empty /\ paper_id \notin acc.seen_ids
        THEN [seen_ids |-> acc.seen_ids \cup {paper_id},
              all_papers |-> Append(acc.all_papers,
                  [paper EXCEPT !.arxiv_id = IF @ = Empty THEN paper_id ELSE @])]
        ELSE acc

RECURSIVE DedupRecords(_, _)
DedupRecords(acc, papers) ==
    IF Len(papers) = 0 THEN acc
    ELSE DedupRecords(DedupRecord(acc, Head(papers)), Tail(papers))

\* what fetcher.fetch() did: returned a list of papers, or raised
Returned(papers) == [raised |-> FALSE, papers |-> papers]
FetchFailed == [raised |-> TRUE, papers |-> <<>>]

\* the loop over self.fetchers; a fetcher that raises contributes nothing
RECURSIVE DedupFetchers(_, _)
DedupFetchers(acc, results) ==
    IF Len(results) = 0 THEN acc
    ELSE IF Head(results).raised
         THEN DedupFetchers(acc, Tail(results))
         ELSE DedupFetchers(DedupRecords(acc, Head(results).papers), Tail(results))

_fetch_papers(results) ==
    DedupFetchers([seen_ids |-> {}, all_papers |-> <<>>], results).all_papers

\* the records of all fetchers in arrival order
RECURSIVE Arrivals(_)
Arrivals(results) ==
    IF Len(results) = 0 THEN <<>>
    ELSE (IF Head(results).raised THEN <<>> ELSE Head(results).papers)
         \o Arrivals(Tail(results))

(***************************************************************************)
(* Inputs of _fetch_papers                                                 *)
(***************************************************************************)

\* the most records the fetchers return together
MaxFetched == 2

Raw(d, a, pm, b, t, v) ==
    [doi |-> d, arxiv_id |-> a, pubmed_id |-> pm, biorxiv_id |-> b,
     title |-> t, version |-> v]

\* raw records: no identifier at all; one identifier; two identifiers next to
\* each other in the priority order; a DOI at version 2
RawRecords ==
    {Raw(Empty, Empty, Empty, Empty, Empty, 1)}
    \cup {Raw(x, Empty, Empty, Empty, Empty, 1) : x \in {IdX, IdY}}
    \cup {Raw(Empty, x, Empty, Empty, Empty, 1) : x \in {IdX, IdY}}
    \cup {Raw(Empty, Empty, x, Empty, Empty, 1) : x \in {IdX, IdY}}
    \cup {Raw(Empty, Empty, Empty, x, Empty, 1) : x \in {IdX, IdY}}
    \cup {Raw(Empty, Empty, Empty, Empty, x, 1) : x \in {IdX, IdY}}
    \cup {Raw(IdX, IdY, Empty, Empty, Empty, 1), Raw(IdY, IdX, Empty, Empty, Empty, 1),
          Raw(Empty, IdX, IdY, Empty, Empty, 1), Raw(Empty, Empty, IdX, IdY, Empty, 1),
          Raw(Empty, Empty, Empty, IdX, IdY, 1)}
    \cup {Raw(IdX, Empty, Empty, Empty, Empty, 2), Raw(IdX, IdY, Empty, Empty, Empty, 2)}

\* obj: the identity of the dict object, its arrival number
WithObj(r, i) ==
    [obj |-> i, doi |-> r.doi, arxiv_id |-> r.arxiv_id, pubmed_id |-> r.pubmed_id,
     biorxiv_id |-> r.biorxiv_id, title |-> r.title, version |-> r.version]

\* two configured fetchers share the records rs: the first returns the first
\* k of them (or raises), the second the rest (or raises)
FetchResult(rs, k, raises) ==
    LET n == Len(rs)
        first == [i \in 1..k |-> WithObj(rs[i], i)]
        second == [i \in 1..(n - k) |-> WithObj(rs[k + i], k + i)]
    IN  << IF raises = 1 THEN FetchFailed ELSE Returned(first),
           IF raises = 2 THEN FetchFailed ELSE Returned(second) >>

(***************************************************************************)
(* Tiered selector (DigestOrchestrator._organize_papers)                   *)
(***************************************************************************)

\* the score below which an unbucketed paper is not noteworthy, in tenths
\* (the literal 60 of _organize_papers)
NoteworthyThreshold == 600

\* papers[:n] and papers[n:] of Python, for any integer n
SliceStart(papers, n) ==
    IF n >= 0 THEN Min(n, Len(papers)) ELSE Max(Len(papers) + n, 0)
Prefix(papers, n) == SubSeq(papers, 1, SliceStart(papers, n))
Suffix(papers, n) == SubSeq(papers, SliceStart(papers, n) + 1, Len(papers))

\* mutant: a paper is inserted before the papers of equal score
RECURSIVE InsertDesc_unstable(_, _)
InsertDesc_unstable(sorted, paper) ==
    IF Len(sorted) = 0 THEN <<paper>>
    ELSE IF Head(sorted).final_score > paper.final_score
         THEN <<Head(sorted)>> \o InsertDesc_unstable(Tail(sorted), paper)
         ELSE <<paper>> \o sorted

\* insert paper behind every paper whose score is not lower: equal scores keep
\* their order (list.sort is stable, also with reverse=True)
RECURSIVE InsertDesc(_, _)
InsertDesc(sorted, paper) ==
    IF Len(sorted) = 0 THEN <<paper>>
    ELSE IF Head(sorted).final_score >= paper.final_score
         THEN <<Head(sorted)>> \o InsertDesc(Tail(sorted), paper)
         ELSE <<paper>> \o sorted

RECURSIVE SortDescFrom(_, _)
SortDescFrom(sorted, papers) ==
    IF Len(papers) = 0 THEN sorted
    ELSE SortDescFrom(InsertDesc(sorted, Head(papers)), Tail(papers))

\* papers.sort(key=lambda p: p['final_score'], reverse=True)
SortByFinalScore(papers) == SortDescFrom(<<>>, papers)

ArxivIds(papers) == {papers[i].arxiv_id : i \in 1..Len(papers)}

\* buckets[bucket_name] = bucket_papers on a dict that keeps insertion order
SetBucket(buckets, name, papers) ==
    IF \E i \in 1..Len(buckets) : buckets[i].name = name
    THEN [i \in 1..Len(buckets) |->
            IF buckets[i].name = name THEN [name |-> name, papers |-> papers]
            ELSE buckets[i]]
    ELSE Append(buckets, [name |-> name, papers |-> papers])

\* mutant: a paper goes into every configured bucket it names
AssignBucket_no_used(acc, remaining, bucket_name) ==
    LET InBucket(p) == bucket_name \in p.buckets
        bucket_papers == SelectSeq(remaining, InBucket)
    IN  IF Len(bucket_papers) > 0
        THEN [buckets |-> SetBucket(acc.buckets, bucket_name,
                                    SortByFinalScore(bucket_papers)),
              used_papers |-> acc.used_papers \cup ArxivIds(bucket_papers)]
        ELSE acc

\* the body of the loop over self.config['buckets']
AssignBucket(acc, remaining, bucket_name) ==
    LET InBucket(p) ==
            bucket_name \in p.buckets /\ p.arxiv_id \notin acc.used_papers
        bucket_papers == SelectSeq(remaining, InBucket)
    IN  IF Len(bucket_papers) > 0
        THEN [buckets |-> SetBucket(acc.buckets, bucket_name,
                                    SortByFinalScore(bucket_papers)),
              used_papers |-> acc.used_papers \cup ArxivIds(bucket_papers)]
        ELSE acc

RECURSIVE AssignBuckets(_, _, _)
AssignBuckets(acc, remaining, bucket_names) ==
    IF Len(bucket_names) = 0 THEN acc
    ELSE AssignBuckets(AssignBucket(acc, remaining, Head(bucket_names)),
                       remaining, Tail(bucket_names))

\* cfg.top_picks is config['digest']['top_picks'], cfg.buckets the names of
\* config['buckets'] in order
_organize_papers(kept, cfg) ==
    LET scored == [i \in 1..Len(kept) |->
                     [kept[i] EXCEPT !.final_score = _calculate_final_score(kept[i])]]
        papers == SortByFinalScore(scored)
        picks == Prefix(papers, cfg.top_picks)
        top_picks == [i \in 1..Len(picks) |-> [picks[i] EXCEPT !.in_top_picks = TRUE]]
        remaining == Suffix(papers, cfg.top_picks)
        assigned == AssignBuckets([buckets |-> <<>>, used_papers |-> {}],
                                  remaining, cfg.buckets)
        Noteworthy(p) ==
            p.final_score >= NoteworthyThreshold /\ p.arxiv_id \notin assigned.used_papers
    IN  [top_picks |-> top_picks,
         buckets |-> assigned.buckets,
         also_noteworthy |-> SelectSeq(remaining, Noteworthy)]

(***************************************************************************)
(* Inputs of _organize_papers                                              *)
(***************************************************************************)

\* the longest list of kept papers
MaxKept == 3
\* the largest configured top_picks count
MaxTopPicks == 2

BucketNames == {Buckets[i].name : i \in 1..Len(Buckets)}

\* the configured bucket list, in either order
BucketOrders == { <<Buckets[1].name, Buckets[2].name>>, <<Buckets[2].name, Buckets[1].name>> }

\* (relevance, heuristic) pairs on both sides of the noteworthy threshold:
\* 0.7 * 60 + 0.3 * 60 = 60.0 and 0.7 * 59 + 0.3 * 60 = 59.3
KeptScores == { <<60, 60>>, <<59, 60>> }

\* the buckets the classifier gave a kept paper
KeptBuckets == SUBSET BucketNames

\* canonical ids; two papers of a run can carry the same one (see C10)
KeptIds == {IdX, IdY}

KeptPaper(i, id, sc, bs) ==
    [obj |-> i, arxiv_id |-> id, keep |-> TRUE,
     relevance_score |-> sc[1], heuristic_score |-> sc[2], buckets |-> bs,
     code_urls |-> <<>>, dataset_urls |-> <<>>, figure_url |-> None, x_url |-> None,
     risk_flags |-> {}, greylisted |-> FALSE,
     final_score |-> 0, in_top_picks |-> FALSE]

KeptList(ids, scs, bss) == [i \in 1..Len(ids) |-> KeptPaper(i, ids[i], scs[i], bss[i])]

\* five kept papers whose final scores are 70, 90, 50, 80 and 60
\* (0.7 * r + 0.3 * r = r), none with a bucket
ExampleScores == <<70, 90, 50, 80, 60>>
ExampleIds == <<IdX, IdY, <<"z">>, <<"u">>, <<"v">>>>
ExampleKept ==
    [i \in 1..5 |-> KeptPaper(i, ExampleIds[i], <<ExampleScores[i], ExampleScores[i]>>, {})]

(***************************************************************************)
(* The paper ledger (Database, table papers)                               *)
(***************************************************************************)

\* no row for an arxiv_id
NoRow == 0 - 1

\* the canonical ids the papers of the model's runs carry
LedgerIds == {IdX, IdY}

EmptyLedger == [id \in LedgerIds |-> NoRow]

\* mutant: the versioned query asks for a strictly greater recorded version
has_seen_paper_strict(db, arxiv_id, version) ==
    IF version # 0
    THEN db[arxiv_id] # NoRow /\ db[arxiv_id] > version
    ELSE db[arxiv_id] # NoRow

\* SELECT 1 FROM papers WHERE arxiv_id = ? AND version >= ?  (a falsy version
\* drops the version condition)
has_seen_paper(db, arxiv_id, version) ==
    IF version # 0
    THEN db[arxiv_id] # NoRow /\ db[arxiv_id] >= version
    ELSE db[arxiv_id] # NoRow

\* INSERT OR REPLACE INTO papers, one paper after the other
RECURSIVE save_papers(_, _)
save_papers(db, papers) ==
    IF Len(papers) = 0 THEN db
    ELSE save_papers([db EXCEPT ![Head(papers).arxiv_id] = Head(papers).version],
                     Tail(papers))

_filter_seen_papers(db, papers) ==
    LET IsNew(p) == ~has_seen_paper(db, p.arxiv_id, p.version)
    IN  SelectSeq(papers, IsNew)

(***************************************************************************)
(* The pipeline run (DigestOrchestrator.run)                               *)
(***************************************************************************)

\* config['digest']['top_picks'] of the model's runs
RunTopPicks == 1
\* config['digest'].get('min_relevance', 50)
MinRelevance == 50
\* the most records the fetchers of one run return together
MaxRunPapers == 2

RunConfig == [top_picks |-> RunTopPicks, buckets |-> <<Buckets[1].name, Buckets[2].name>>]

\* a record as a fetcher returns it; the annotations a later stage adds hold
\* the defaults paper.get() gives an absent key
RunRecord(d, a, v, t, abs, pub) ==
    [obj |-> 0, doi |-> d, arxiv_id |-> a, pubmed_id |-> Empty, biorxiv_id |-> Empty,
     title |-> t, abstract |-> abs, version |-> v, published |-> pub,
     heuristic_score |-> 0, detected_buckets |-> <<>>, greylisted |-> FALSE,
     keep |-> FALSE, relevance_score |-> 0, buckets |-> {}, error |-> FALSE,
     code_urls |-> <<>>, dataset_urls |-> <<>>, figure_url |-> None, x_url |-> None,
     risk_flags |-> {}, final_score |-> 0, in_top_picks |-> FALSE]

\* the records the fetchers of a run may return: one paper at versions 1 and
\* 2, a paper with a hard-drop title, a greylisted paper whose DOI differs from
\* its arxiv_id, and a paper published before today
RunRecords ==
    { RunRecord(Empty, IdX, 1, W_ai, W_drug, "today"),
      RunRecord(Empty, IdX, 2, W_ai, W_drug, "today"),
      RunRecord(Empty, IdY, 1, W_zoo, <<>>, "today"),
      RunRecord(IdY, IdX, 1, W_mouse, W_gan, "today"),
      RunRecord(Empty, IdY, 2, W_pain, <<>>, "old") }

RunFetchResult(rs, raises) ==
    << IF raises THEN FetchFailed
       ELSE Returned([i \in 1..Len(rs) |-> [rs[i] EXCEPT !.obj = i]]) >>

\* Step 2: heuristic score and bucket hints of every fetched paper
AddHeuristics(papers) ==
    [i \in 1..Len(papers) |->
        [papers[i] EXCEPT
            !.heuristic_score = _calculate_score(PaperText(papers[i])),
            !.detected_buckets = _detect_buckets(PaperText(papers[i]))]]

\* Step 3: papers published today, and papers whose date does not parse
_filter_todays_papers(papers) ==
    LET Today(p) == p.published # "old"
    IN  SelectSeq(papers, Today)

\* what the classifier stage can leave on a paper: the classifier's answer
\* (drop; keep with a bucket; keep without bucket and a high or a middling
\* score), or the annotation of the except branch of classify_single
Annotation(k, r, bs, e) == [keep |-> k, relevance_score |-> r, buckets |-> bs, error |-> e]
FallbackAnnotation == Annotation(TRUE, 30, {}, TRUE)
ClassifierAnnotations ==
    { Annotation(FALSE, 20, {}, FALSE),
      Annotation(TRUE, 90, {"B1"}, FALSE),
      Annotation(TRUE, 90, {}, FALSE),
      Annotation(TRUE, 60, {}, FALSE),
      FallbackAnnotation }

\* max(0, min(100, result['relevance_score']))
ClampRelevance(ann) ==
    [ann EXCEPT !.relevance_score = Max(0, Min(100, ann.relevance_score))]

\* stop_after_attempt(3) of the retry decorator of classify_single
MaxAttempts == 3

\* what model.generate_content does on one attempt: it answers, or it raises
\* (a transient failure of the service)
Answer(ann) == [raised |-> FALSE, result |-> ann]
TransientFailure == [raised |-> TRUE, result |-> Annotation(FALSE, 0, {}, TRUE)]

\* a body of classify_single without the except block: a failure of the
\* service raises out of the body
ClassifyBody_raises(outcome) ==
    IF outcome.raised
    THEN [raised |-> TRUE, result |-> FallbackAnnotation]
    ELSE [raised |-> FALSE, result |-> ClampRelevance(outcome.result)]

\* the body of classify_single on one attempt: the try block returns the
\* paper with the classifier's answer, the except block catches every
\* exception and returns the paper with the fallback annotation; the body
\* itself never raises
ClassifyBody(outcome) ==
    IF outcome.raised
    THEN [raised |-> FALSE, result |-> FallbackAnnotation]
    ELSE [raised |-> FALSE, result |-> ClampRelevance(outcome.result)]

\* the retry decorator: the body is called again only when it raised, at most
\* MaxAttempts times; after the last attempt the exception is raised on
RECURSIVE Retrying(_, _)
Retrying(service, attempt) ==
    LET r == ClassifyBody(service[attempt])
    IN  IF ~r.raised
        THEN [raised |-> FALSE, result |-> r.result, attempts |-> attempt]
        ELSE IF attempt >= MaxAttempts
             THEN [raised |-> TRUE, result |-> r.result, attempts |-> attempt]
             ELSE Retrying(service, attempt + 1)

\* service[k]: what the classifier service does on the k-th attempt
classify_single(service) == Retrying(service, 1)

\* the answers of the service: the classifier's annotations, and one with a
\* relevance above 100
ServiceOutcomes ==
    {Answer(a) : a \in (ClassifierAnnotations \ {FallbackAnnotation})
                        \cup {Annotation(TRUE, 130, {}, FALSE)}}
    \cup {TransientFailure}

NoClassifierCall ==
    [pc |-> "idle", service |-> <<>>,
     out |-> [raised |-> FALSE, result |-> Annotation(FALSE, 0, {}, FALSE), attempts |-> 0],
     papers |-> <<>>, services |-> <<>>,
     batch |-> [raised |-> FALSE, classified |-> <<>>]]

\* paper.update(result)
Annotate(paper, ann) ==
    [paper EXCEPT !.keep = ann.keep, !.relevance_score = ann.relevance_score,
                  !.buckets = ann.buckets, !.error = ann.error]

\* classify_batch: the papers are classified one by one, in the order of the
\* list, and each result is appended to classified; an exception of
\* classify_single is not caught and ends the call without a result.
\* services[i] is what the classifier service does for papers[i]
RECURSIVE classify_batch(_, _)
classify_batch(papers, services) ==
    IF papers = <<>>
    THEN [raised |-> FALSE, classified |-> <<>>]
    ELSE LET n == Len(papers)
             before == classify_batch(SubSeq(papers, 1, n - 1), SubSeq(services, 1, n - 1))
             result == classify_single(services[n])
         IN  IF before.raised \/ result.raised
             THEN [raised |-> TRUE, classified |-> <<>>]
             ELSE [raised |-> FALSE,
                   classified |-> Append(before.classified, Annotate(papers[n], result.result))]

\* --skip-classify: every paper is kept with relevance 50 and its hinted buckets
SkipAnnotate(paper) ==
    [paper EXCEPT !.keep = TRUE, !.relevance_score = 50,
                  !.buckets = {paper.detected_buckets[i] : i \in 1..Len(paper.detected_buckets)}]

\* Step 5: kept papers must meet the minimum relevance
KeptPapers(papers) ==
    LET Kept(p) == p.keep /\ p.relevance_score >= MinRelevance
    IN  SelectSeq(papers, Kept)

\* insertion behind every paper whose heuristic score is not lower
RECURSIVE InsertByHeuristic(_, _)
InsertByHeuristic(sorted, paper) ==
    IF Len(sorted) = 0 THEN <<paper>>
    ELSE IF Head(sorted).heuristic_score >= paper.heuristic_score
         THEN <<Head(sorted)>> \o InsertByHeuristic(Tail(sorted), paper)
         ELSE <<paper>> \o sorted

RECURSIVE SortByHeuristicFrom(_, _)
SortByHeuristicFrom(sorted, papers) ==
    IF Len(papers) = 0 THEN sorted
    ELSE SortByHeuristicFrom(InsertByHeuristic(sorted, Head(papers)), Tail(papers))

\* debug mode with nothing kept: papers is sorted in place by heuristic score
\* and its first 10 papers are marked kept
DebugKeep(papers) ==
    LET sorted == SortByHeuristicFrom(<<>>, papers)
    IN  [i \in 1..Len(sorted) |->
            IF i <= 10
            THEN [sorted[i] EXCEPT !.keep = TRUE,
                                   !.relevance_score = sorted[i].heuristic_score]
            ELSE sorted[i]]

\* Step 10: filtered_out = [p for p in papers if not p.get('keep', False)]
FilteredOut(papers) ==
    LET Dropped(p) == ~p.keep
    IN  SelectSeq(papers, Dropped)

\* _organize_papers writes final_score and in_top_picks on the dicts that
\* papers holds too
RECURSIVE Lookup(_, _, _)
Lookup(paper, updated, k) ==
    IF k > Len(updated) THEN paper
    ELSE IF updated[k].obj = paper.obj THEN updated[k]
    ELSE Lookup(paper, updated, k + 1)

AllTiers(out) ==
    LET RECURSIVE Cat(_)
        Cat(k) == IF k > Len(out.buckets) THEN <<>>
                  ELSE out.buckets[k].papers \o Cat(k + 1)
    IN  out.top_picks \o Cat(1) \o out.also_noteworthy

\* arrived: the records the fetchers returned; fetched_count: len(papers) after
\* _fetch_papers; queried: has_seen_paper was called; rendered: the web view
\* and the email were rendered; saved: the calls of save_papers that have
\* committed; failure: the ledger call that raised; logged: the digest_runs
\* row of this run ("ok", or "error" with the error recorded) and
\* log_email_sent its email_sent column
IdleRun ==
    [pc |-> "idle", test_mode |-> FALSE, force |-> FALSE, skip_classification |-> FALSE,
     arrived |-> <<>>, fetched_count |-> 0, queried |-> FALSE,
     fetched |-> <<>>, papers |-> <<>>, kept_papers |-> <<>>,
     top_picks |-> <<>>, buckets |-> <<>>, also_noteworthy |-> <<>>,
     filtered_out |-> <<>>, rendered |-> FALSE, email |-> None,
     saved |-> 0, failure |-> None, logged |-> None, log_email_sent |-> FALSE]

\* except Exception: outside test mode the run is logged with the error; the
\* exception is raised again
Failed(r, call) ==
    [r EXCEPT !.pc = "failed", !.failure = call,
              !.logged = IF r.test_mode THEN r.logged ELSE "error",
              !.log_email_sent = FALSE]

(***************************************************************************)
(* Specification SpecScoring: the heuristic engine and the score combiner  *)
(* applied to every text, batch and annotated paper of the bounded inputs  *)
(***************************************************************************)

FetchIdle == fetched = <<>> /\ all_papers = <<>>
NoConfig == [top_picks |-> 0, buckets |-> <<>>]
NoOutput == [top_picks |-> <<>>, buckets |-> <<>>, also_noteworthy |-> <<>>]
OrgIdle == org_cfg = NoConfig /\ org_in = <<>> /\ org_out = NoOutput
DbIdle == db_papers = EmptyLedger /\ recorded = {} /\ delivered = {}
RunIdle == run = IdleRun
ClsIdle == cls = NoClassifierCall

InitText ==
    /\ phase = "text"
    /\ text \in Texts
    /\ hcall = NoCall
    /\ hf_papers = <<>> /\ hf_out = <<>>
    /\ ScoreIdle /\ FetchIdle /\ OrgIdle /\ DbIdle /\ RunIdle /\ ClsIdle

InitPreFilter ==
    /\ phase = "pre_filter"
    /\ \E n \in 1..MaxBatch :
          \E ts \in [1..n -> PFTitles], as \in [1..n -> PFAbstracts] :
              hf_papers = PFBatch(ts, as)
    /\ hf_out = <<>>
    /\ text = <<>> /\ hcall = NoCall
    /\ ScoreIdle /\ FetchIdle /\ OrgIdle /\ DbIdle /\ RunIdle /\ ClsIdle

InitScore ==
    /\ phase = "score"
    /\ sc_paper \in ScorePapers
    /\ sc_out = 0 - 1
    /\ HeurIdle /\ FetchIdle /\ OrgIdle /\ DbIdle /\ RunIdle /\ ClsIdle

InitScoring == InitText \/ InitPreFilter \/ InitScore

\* self._should_drop(text)
ShouldDrop ==
    /\ phase = "text"
    /\ hcall' = [fn |-> "_should_drop", result |-> _should_drop(text)]
    /\ UNCHANGED <<clsVars, phase, text, hf_papers, hf_out, scoreVars, fetchVars, orgVars, dbVars, run>>

\* self._calculate_score(text)
CalculateScore ==
    /\ phase = "text"
    /\ hcall' = [fn |-> "_calculate_score", result |-> _calculate_score(text)]
    /\ UNCHANGED <<clsVars, phase, text, hf_papers, hf_out, scoreVars, fetchVars, orgVars, dbVars, run>>

\* self._detect_buckets(text)
DetectBuckets ==
    /\ phase = "text"
    /\ hcall' = [fn |-> "_detect_buckets", result |-> _detect_buckets(text)]
    /\ UNCHANGED <<clsVars, phase, text, hf_papers, hf_out, scoreVars, fetchVars, orgVars, dbVars, run>>

\* filtered = self.pre_filter(papers)
PreFilter ==
    /\ phase = "pre_filter"
    /\ hf_out' = pre_filter(hf_papers)
    /\ phase' = "pre_filtered"
    /\ UNCHANGED <<clsVars, text, hcall, hf_papers, scoreVars, fetchVars, orgVars, dbVars, run>>

\* paper['final_score'] = self._calculate_final_score(paper)
CalculateFinalScore ==
    /\ phase = "score"
    /\ sc_out' = _calculate_final_score(sc_paper)
    /\ phase' = "scored"
    /\ UNCHANGED <<clsVars, sc_paper, heurVars, fetchVars, orgVars, dbVars, run>>

NextScoring ==
    \/ ShouldDrop
    \/ CalculateScore
    \/ DetectBuckets
    \/ PreFilter
    \/ CalculateFinalScore

SpecScoring == InitScoring /\ [][NextScoring]_vars


(***************************************************************************)
(* Claims on the heuristic engine and the score combiner (SpecScoring)     *)
(***************************************************************************)

\* C3: whatever the inputs (any classifier score, any heuristic score, all
\* bonuses, all penalties, any number of term matches), _calculate_score
\* returns a score between 0 and 100 and _calculate_final_score returns a
\* score between 0 and 100 (0 and 1000 tenths).
C3_ScoreBounds ==
    /\ hcall.fn = "_calculate_score" => hcall.result >= 0 /\ hcall.result <= 100
    /\ phase = "scored" => sc_out >= 0 /\ sc_out <= 1000

\* a final score that the penalties would take below 0, from an in-range
\* classifier score with both risk flags and the greylist mark
C3_Witness ==
    /\ phase = "scored"
    /\ sc_paper.relevance_score \in 0..100
    /\ sc_paper.risk_flags = {"sim-only", "no-code"}
    /\ sc_paper.greylisted
    /\ _unclamped_score(sc_paper) < 0
    /\ sc_out = 0

Bonus(cond, tenths) == IF cond THEN tenths ELSE 0

\* the formula of the claim, in tenths, before the clamp
ClaimedSum(p) ==
    7 * p.relevance_score + 3 * p.heuristic_score
    + Bonus(p.code_urls # <<>>, 50) + Bonus(p.dataset_urls # <<>>, 30)
    + Bonus(p.figure_url = "fig", 20) + Bonus(p.x_url = "post", 20)
    - Bonus("sim-only" \in p.risk_flags, 100) - Bonus("no-code" \in p.risk_flags, 50)
    - Bonus(p.greylisted, 150)

Clamp(lo, hi, x) == IF x < lo THEN lo ELSE IF x > hi THEN hi ELSE x

\* relevance 80, heuristic 50, one code URL, risk flag no-code
C4_Example ==
    [relevance_score |-> 80, heuristic_score |-> 50, code_urls |-> <<"x">>,
     dataset_urls |-> <<>>, figure_url |-> None, x_url |-> None,
     risk_flags |-> {"no-code"}, greylisted |-> FALSE]

\* C4: the final score is clamp[0,100](0.7 relevance + 0.3 heuristic + 5 code
\* + 3 dataset + 2 figure + 2 social post - 10 sim-only - 5 no-code - 15
\* greylisted), clamped once after all bonuses and penalties; the example
\* paper scores 71.
C4_FinalScoreFormula ==
    phase = "scored" =>
        /\ sc_out = Clamp(0, 1000, ClaimedSum(sc_paper))
        /\ sc_paper = C4_Example => sc_out = 710

\* the bonuses alone exceed 100 and a penalty brings the score back under it:
\* the place where one clamp and two clamps differ
C4_Witness ==
    /\ phase = "scored"
    /\ sc_paper.relevance_score = 100 /\ sc_paper.heuristic_score = 100
    /\ sc_paper.code_urls # <<>>
    /\ sc_paper.risk_flags = {"sim-only"}
    /\ ~sc_paper.greylisted
    /\ sc_out < 1000

ContainsTerm(terms, s) == \E k \in 1..Len(terms) : Search(terms[k], s)

\* C5: a text with a hard-drop term and a boost term of any tier is not
\* excluded by _should_drop.
C5_DropOverride ==
    ( /\ hcall.fn = "_should_drop"
      /\ ContainsTerm(DropTerms, text)
      /\ \E level \in BoostLevels : ContainsTerm(BoostTerms[level], text) )
    => hcall.result = FALSE

\* a hard-drop term together with a low-tier boost term only
C5_Witness ==
    /\ hcall.fn = "_should_drop"
    /\ ContainsTerm(DropTerms, text)
    /\ ContainsTerm(BoostTerms.low, text)
    /\ ~ContainsTerm(BoostTerms.high, text)
    /\ ~ContainsTerm(BoostTerms.medium, text)
    /\ hcall.result = FALSE

GreyWithoutMethod(p) ==
    /\ ContainsTerm(GreylistTerms, PaperText(p))
    /\ ~ContainsTerm(GreylistKeepKeywords, PaperText(p))

\* C6: a paper with a greylist term and no transferable-method keyword is
\* absent from pre_filter's output, and every paper of the output that has a
\* greylist term is marked greylisted.
C6_GreylistGate ==
    phase = "pre_filtered" =>
        /\ \A i \in 1..Len(hf_papers) :
              GreyWithoutMethod(hf_papers[i]) =>
                  \A j \in 1..Len(hf_out) : hf_out[j].obj # hf_papers[i].obj
        /\ \A j \in 1..Len(hf_out) :
              ContainsTerm(GreylistTerms, PaperText(hf_out[j])) => hf_out[j].greylisted

\* one greylisted paper excluded and one kept (and marked) in the same call
C6_Witness ==
    /\ phase = "pre_filtered"
    /\ \E i \in 1..Len(hf_papers) :
          /\ GreyWithoutMethod(hf_papers[i])
          /\ ~_should_drop(PaperText(hf_papers[i]))
    /\ \E j \in 1..Len(hf_out) :
          /\ ContainsTerm(GreylistTerms, PaperText(hf_out[j]))
          /\ hf_out[j].greylisted


(***************************************************************************)
(* Specification SpecFetch: _fetch_papers on the bounded fetcher results   *)
(***************************************************************************)

InitFetch ==
    /\ phase = "fetch"
    /\ \E n \in 0..MaxFetched : \E rs \in [1..n -> RawRecords] :
          \E k \in 0..n : \E raises \in {0, 1, 2} :
              fetched = FetchResult(rs, k, raises)
    /\ all_papers = <<>>
    /\ HeurIdle /\ ScoreIdle /\ OrgIdle /\ DbIdle /\ RunIdle /\ ClsIdle

\* papers = self._fetch_papers()
FetchPapers ==
    /\ phase = "fetch"
    /\ all_papers' = _fetch_papers(fetched)
    /\ phase' = "fetched"
    /\ UNCHANGED <<clsVars, fetched, heurVars, scoreVars, orgVars, dbVars, run>>

\* _fetch_papers once more, with one fetcher that returns the papers the
\* first call produced
FetchPapersAgain ==
    /\ phase = "fetched"
    /\ fetched' = <<Returned(all_papers)>>
    /\ all_papers' = _fetch_papers(<<Returned(all_papers)>>)
    /\ phase' = "fetched_again"
    /\ UNCHANGED <<clsVars, heurVars, scoreVars, orgVars, dbVars, run>>

NextFetch == FetchPapers \/ FetchPapersAgain

SpecFetch == InitFetch /\ [][NextFetch]_vars

\* C7: batch-level dedup is first-seen-wins and ignores version: in arrival
\* order (fetchers in configured order, each fetcher's records in order) a
\* record is kept iff its identity key is non-empty and no earlier record had
\* the same key; the kept records come out in arrival order.
C7_FirstSeenWins ==
    phase = "fetched" =>
        LET arr == Arrivals(fetched)
            keptAt(i) ==
                /\ PaperId(arr[i]) # Empty
                /\ \A j \in 1..(i - 1) : PaperId(arr[j]) # PaperId(arr[i])
        IN  /\ \A i \in 1..Len(arr) :
                  keptAt(i) <=> \E j \in 1..Len(all_papers) : all_papers[j].obj = arr[i].obj
            /\ \A j, k \in 1..Len(all_papers) :
                  j < k => all_papers[j].obj < all_papers[k].obj

\* two records with the same DOI at versions 1 and 2, the version 1 record
\* first: only it survives
C7_Witness ==
    /\ phase = "fetched"
    /\ LET arr == Arrivals(fetched)
       IN  /\ Len(arr) = 2
           /\ arr[1].doi = IdX /\ arr[2].doi = IdX
           /\ arr[1].version = 1 /\ arr[2].version = 2
    /\ Len(all_papers) = 1
    /\ all_papers[1].obj = 1

\* C10: no two papers of the list _fetch_papers returns carry the same
\* canonical id (arxiv_id).
C10_UniqueCanonicalId ==
    phase = "fetched" =>
        \A j, k \in 1..Len(all_papers) :
            j # k => all_papers[j].arxiv_id # all_papers[k].arxiv_id

\* the identifiers of a record in the order in which they are tried
Candidates(r) == <<r.doi, r.arxiv_id, r.pubmed_id, r.biorxiv_id, r.title>>

\* the first non-empty of a list of candidates, Empty when there is none
RECURSIVE FirstNonEmpty(_)
FirstNonEmpty(cs) ==
    IF Len(cs) = 0 THEN Empty
    ELSE IF Head(cs) # Empty THEN Head(cs)
    ELSE FirstNonEmpty(Tail(cs))

\* C11: the identity of a record is the first non-empty of DOI, arxiv_id,
\* pubmed_id, biorxiv_id, title, in this order: two records of a batch are
\* duplicates of each other exactly when these agree, and a record that lacks
\* an arxiv_id is stored under it; a record whose candidates are all empty is
\* dropped, and the records after it are processed as if it were not there.
C11_IdentityPriority ==
    phase = "fetched" =>
        LET arr == Arrivals(fetched)
            id(i) == FirstNonEmpty(Candidates(arr[i]))
            first(i) == \A j \in 1..(i - 1) : id(j) # id(i)
            out(i) == {j \in 1..Len(all_papers) : all_papers[j].obj = arr[i].obj}
        IN  \A i \in 1..Len(arr) :
                /\ id(i) = Empty => out(i) = {}
                /\ (id(i) # Empty /\ first(i)) => out(i) # {}
                /\ (id(i) # Empty /\ ~first(i)) => out(i) = {}
                /\ \A j \in out(i) :
                      all_papers[j].arxiv_id =
                          IF arr[i].arxiv_id # Empty THEN arr[i].arxiv_id ELSE id(i)

\* a record without any identifier or title comes first and is dropped; the
\* record behind it, which has a title only, is kept under its title
C11_Witness ==
    /\ phase = "fetched"
    /\ LET arr == Arrivals(fetched)
       IN  /\ Len(arr) = 2
           /\ \A k \in 1..5 : Candidates(arr[1])[k] = Empty
           /\ \A k \in 1..4 : Candidates(arr[2])[k] = Empty
           /\ arr[2].title = IdX
    /\ Len(all_papers) = 1
    /\ all_papers[1].obj = 2
    /\ all_papers[1].arxiv_id = IdX

\* C12: batch-level dedup applied to its own output (with the arxiv_id it
\* filled in) keeps every paper, in the same order.
C12_DedupIdempotent ==
    phase = "fetched_again" => all_papers = fetched[1].papers

\* two survivors of the first pass survive the second; one of them has no
\* arxiv_id of its own and carries its pubmed_id there
C12_Witness ==
    /\ phase = "fetched_again"
    /\ Len(fetched[1].papers) = 2
    /\ Len(all_papers) = 2
    /\ \E j \in 1..2 :
          /\ all_papers[j].doi = Empty
          /\ all_papers[j].pubmed_id # Empty
          /\ all_papers[j].arxiv_id = all_papers[j].pubmed_id


(***************************************************************************)
(* Specification SpecOrganize: _organize_papers on the bounded kept lists  *)
(***************************************************************************)

InitOrganize ==
    /\ phase = "organize"
    /\ \E n \in 1..(MaxKept + 1) :
          IF n > MaxKept THEN org_in = ExampleKept
          ELSE \E ids \in [1..n -> KeptIds], scs \in [1..n -> KeptScores],
                  bss \in [1..n -> KeptBuckets] :
                   org_in = KeptList(ids, scs, bss)
    /\ \E t \in 0..MaxTopPicks, order \in BucketOrders :
          org_cfg = [top_picks |-> t, buckets |-> order]
    /\ org_out = NoOutput
    /\ HeurIdle /\ ScoreIdle /\ FetchIdle /\ DbIdle /\ RunIdle /\ ClsIdle

\* top_picks, buckets, also_noteworthy = self._organize_papers(kept_papers)
OrganizePapers ==
    /\ phase = "organize"
    /\ org_out' = _organize_papers(org_in, org_cfg)
    /\ phase' = "organized"
    /\ UNCHANGED <<clsVars, org_cfg, org_in, heurVars, scoreVars, fetchVars, dbVars, run>>

NextOrganize == OrganizePapers

SpecOrganize == InitOrganize /\ [][NextOrganize]_vars

Objs(papers) == {papers[i].obj : i \in 1..Len(papers)}

\* the papers (dict objects) of all bucket lists of an output
BucketObjs(out) == UNION {Objs(out.buckets[i].papers) : i \in 1..Len(out.buckets)}

\* C1: in the output of _organize_papers no paper is in more than one tier:
\* not in top_picks and a bucket or also_noteworthy, not in two bucket lists,
\* not in a bucket and also_noteworthy (a paper is one element of the kept
\* list; no tier lists it twice either).
C1_TierExclusive ==
    phase = "organized" =>
        /\ Objs(org_out.top_picks) \cap BucketObjs(org_out) = {}
        /\ Objs(org_out.top_picks) \cap Objs(org_out.also_noteworthy) = {}
        /\ BucketObjs(org_out) \cap Objs(org_out.also_noteworthy) = {}
        /\ \A i, j \in 1..Len(org_out.buckets) :
              i # j => Objs(org_out.buckets[i].papers) \cap Objs(org_out.buckets[j].papers) = {}
        /\ Cardinality(Objs(org_out.top_picks)) = Len(org_out.top_picks)
        /\ Cardinality(Objs(org_out.also_noteworthy)) = Len(org_out.also_noteworthy)
        /\ \A i \in 1..Len(org_out.buckets) :
              Cardinality(Objs(org_out.buckets[i].papers)) = Len(org_out.buckets[i].papers)

\* a top pick, a paper that names both configured buckets and sits in one of
\* them, and a noteworthy paper, all in one output
C1_Witness ==
    /\ phase = "organized"
    /\ Len(org_out.top_picks) = 1
    /\ Len(org_out.also_noteworthy) = 1
    /\ \E i \in 1..Len(org_out.buckets) :
          \E j \in 1..Len(org_out.buckets[i].papers) :
              org_out.buckets[i].papers[j].buckets = {"B1", "B2"}


(***************************************************************************)
(* Specification Spec: runs of the pipeline, one after the other, on the   *)
(* same ledger                                                             *)
(***************************************************************************)

Init ==
    /\ phase = "run"
    /\ db_papers = EmptyLedger
    /\ recorded = {}
    /\ delivered = {}
    /\ run = IdleRun
    /\ HeurIdle /\ ScoreIdle /\ FetchIdle /\ OrgIdle /\ ClsIdle

\* run(test_mode, skip_classification, force) up to Step 3: the schedule
\* check (scheduled = FALSE: a local run outside the configured day/time, which
\* turns test_mode on), the fetch, the heuristic scores and the date filter
StartRun ==
    /\ run.pc = "idle"
    /\ \E test \in BOOLEAN, skip \in BOOLEAN, force \in BOOLEAN, scheduled \in BOOLEAN,
          raises \in BOOLEAN :
       \E n \in 0..MaxRunPapers : \E rs \in [1..n -> RunRecords] :
          LET test_mode == test \/ (~force /\ ~scheduled)
              results == RunFetchResult(rs, raises)
              papers == _fetch_papers(results)
              todays == _filter_todays_papers(AddHeuristics(papers))
          IN  run' = [IdleRun EXCEPT
                        !.pc = IF Len(papers) = 0 THEN "returned" ELSE "fetched",
                        !.test_mode = test_mode,
                        !.force = force,
                        !.skip_classification = skip,
                        !.arrived = Arrivals(results),
                        !.fetched_count = Len(papers),
                        !.fetched = IF Len(papers) = 0 THEN <<>> ELSE todays,
                        !.papers = IF Len(papers) = 0 THEN <<>> ELSE todays]
    /\ UNCHANGED <<clsVars, phase, dbVars, heurVars, scoreVars, fetchVars, orgVars>>

\* mutant: the history filter runs in force mode too
FilterSeenPapers_always ==
    /\ run.pc = "fetched"
    /\ \E raised \in BOOLEAN :
          LET queried == Len(run.papers) > 0
              papers == _filter_seen_papers(db_papers, run.papers)
          IN  /\ raised => queried
              /\ run' = IF raised
                        THEN Failed([run EXCEPT !.queried = TRUE], "has_seen_paper")
                        ELSE [run EXCEPT
                                !.queried = queried,
                                !.papers = papers,
                                !.pc = IF Len(papers) = 0 THEN "returned" ELSE "new_papers"]
    /\ UNCHANGED <<clsVars, phase, dbVars, heurVars, scoreVars, fetchVars, orgVars>>

\* Step 4: history-level dedup, unless force; return when nothing is left.
\* has_seen_paper is called once per paper and can raise (the database is
\* unavailable), which ends the run in the except branch
FilterSeenPapers ==
    /\ run.pc = "fetched"
    /\ \E raised \in BOOLEAN :
          LET queried == ~run.force /\ Len(run.papers) > 0
              papers == IF run.force THEN run.papers
                        ELSE _filter_seen_papers(db_papers, run.papers)
          IN  /\ raised => queried
              /\ run' = IF raised
                        THEN Failed([run EXCEPT !.queried = TRUE], "has_seen_paper")
                        ELSE [run EXCEPT
                                !.queried = queried,
                                !.papers = papers,
                                !.pc = IF Len(papers) = 0 THEN "returned" ELSE "new_papers"]
    /\ UNCHANGED <<clsVars, phase, dbVars, heurVars, scoreVars, fetchVars, orgVars>>

\* mutant: the run goes on when no paper is kept
ClassifyPapers_no_return ==
    /\ run.pc = "new_papers"
    /\ \E anns \in [1..Len(run.papers) -> ClassifierAnnotations] :
          LET classified ==
                  [i \in 1..Len(run.papers) |->
                      IF run.skip_classification THEN SkipAnnotate(run.papers[i])
                      ELSE Annotate(run.papers[i], anns[i])]
              kept == KeptPapers(classified)
              debug == Len(kept) = 0 /\ run.test_mode
              papers == IF debug THEN DebugKeep(classified) ELSE classified
              kept_papers == IF debug THEN SubSeq(papers, 1, Min(10, Len(papers))) ELSE kept
          IN  run' = [run EXCEPT
                        !.papers = papers,
                        !.kept_papers = kept_papers,
                        !.pc = "classified"]
    /\ UNCHANGED <<clsVars, phase, dbVars, heurVars, scoreVars, fetchVars, orgVars>>

\* Steps 5 and 6 and the kept filter: enrichment (figures and X posts are
\* switched off in the model's config), classification of every paper (or
\* --skip-classify), the min_relevance filter, the debug-mode fallback, and the
\* return when nothing is kept
ClassifyPapers ==
    /\ run.pc = "new_papers"
    /\ \E anns \in [1..Len(run.papers) -> ClassifierAnnotations] :
          LET classified ==
                  [i \in 1..Len(run.papers) |->
                      IF run.skip_classification THEN SkipAnnotate(run.papers[i])
                      ELSE Annotate(run.papers[i], anns[i])]
              kept == KeptPapers(classified)
              debug == Len(kept) = 0 /\ run.test_mode
              papers == IF debug THEN DebugKeep(classified) ELSE classified
              kept_papers == IF debug THEN SubSeq(papers, 1, Min(10, Len(papers))) ELSE kept
          IN  run' = [run EXCEPT
                        !.papers = papers,
                        !.kept_papers = kept_papers,
                        !.pc = IF Len(kept_papers) = 0 THEN "returned" ELSE "classified"]
    /\ UNCHANGED <<clsVars, phase, dbVars, heurVars, scoreVars, fetchVars, orgVars>>

\* mutant: the papers are saved to the ledger as soon as they are organized,
\* before the email is sent
OrganizeAndRender_saves ==
    /\ run.pc = "classified"
    /\ LET out == _organize_papers(run.kept_papers, RunConfig)
           papers == [i \in 1..Len(run.papers) |-> Lookup(run.papers[i], AllTiers(out), 1)]
       IN  /\ run' = [run EXCEPT
                        !.top_picks = out.top_picks,
                        !.buckets = out.buckets,
                        !.also_noteworthy = out.also_noteworthy,
                        !.papers = papers,
                        !.filtered_out = FilteredOut(papers),
                        !.rendered = TRUE,
                        !.saved = IF run.test_mode THEN @ ELSE @ + 1,
                        !.pc = "rendered"]
           /\ db_papers' = IF run.test_mode THEN db_papers ELSE save_papers(db_papers, papers)
           /\ recorded' = IF run.test_mode THEN recorded
                          ELSE recorded \cup {<<papers[i].arxiv_id, papers[i].version>> :
                                                 i \in 1..Len(papers)}
    /\ UNCHANGED <<clsVars, phase, delivered, heurVars, scoreVars, fetchVars, orgVars>>

\* Steps 6 to 12: _organize_papers, the filtered-out list, and the rendering
\* of the web view and the email from top_picks, buckets, also_noteworthy and
\* filtered_out
OrganizeAndRender ==
    /\ run.pc = "classified"
    /\ LET out == _organize_papers(run.kept_papers, RunConfig)
           papers == [i \in 1..Len(run.papers) |-> Lookup(run.papers[i], AllTiers(out), 1)]
       IN  run' = [run EXCEPT
                     !.top_picks = out.top_picks,
                     !.buckets = out.buckets,
                     !.also_noteworthy = out.also_noteworthy,
                     !.papers = papers,
                     !.filtered_out = FilteredOut(papers),
                     !.rendered = TRUE,
                     !.pc = "rendered"]
    /\ UNCHANGED <<clsVars, phase, dbVars, heurVars, scoreVars, fetchVars, orgVars>>

\* Step 13: the test output is saved, or the email is sent (send_digest
\* returns True or False)
SendEmail ==
    /\ run.pc = "rendered"
    /\ \E success \in BOOLEAN :
          LET digest == AllTiers(run)
          IN  /\ run' = [run EXCEPT
                            !.email = IF run.test_mode THEN "test_output"
                                      ELSE IF success THEN "sent" ELSE "failed",
                            !.pc = "sent"]
              /\ delivered' =
                    IF ~run.test_mode /\ ~run.force /\ success
                    THEN delivered \cup {<<digest[i].arxiv_id, digest[i].version>> :
                                             i \in 1..Len(digest)}
                    ELSE delivered
    /\ UNCHANGED <<clsVars, phase, db_papers, recorded, heurVars, scoreVars, fetchVars, orgVars>>

\* Step 14: outside test mode the processed papers are saved to the ledger
\* and the run is logged. save_papers can raise; its transaction is then
\* rolled back and the run ends in the except branch
SavePapers ==
    /\ run.pc = "sent"
    /\ \E raised \in BOOLEAN :
          LET saved == ~run.test_mode /\ ~raised
          IN  /\ raised => ~run.test_mode
              /\ db_papers' = IF saved THEN save_papers(db_papers, run.papers) ELSE db_papers
              /\ recorded' = IF saved
                             THEN recorded \cup {<<run.papers[i].arxiv_id, run.papers[i].version>> :
                                                    i \in 1..Len(run.papers)}
                             ELSE recorded
              /\ run' = IF raised THEN Failed(run, "save_papers")
                        ELSE [run EXCEPT !.pc = "done",
                                         !.saved = IF saved THEN @ + 1 ELSE @,
                                         !.logged = IF run.test_mode THEN @ ELSE "ok",
                                         !.log_email_sent = ~run.test_mode]
    /\ UNCHANGED <<clsVars, phase, delivered, heurVars, scoreVars, fetchVars, orgVars>>

\* run() has returned (early, or after Step 14) or raised, and the process
\* ends; the next invocation starts from the ledger it left
EndRun ==
    /\ run.pc \in {"returned", "done", "failed"}
    /\ run' = IdleRun
    /\ UNCHANGED <<clsVars, phase, dbVars, heurVars, scoreVars, fetchVars, orgVars>>

Next ==
    \/ StartRun
    \/ FilterSeenPapers
    \/ ClassifyPapers
    \/ OrganizeAndRender
    \/ SendEmail
    \/ SavePapers
    \/ EndRun

Spec == Init /\ [][Next]_vars


(***************************************************************************)
(* Claims on the pipeline run and the ledger (Spec)                        *)
(***************************************************************************)

\* C2: every paper that reached the classification stage of a run that
\* produces a digest is in top_picks, in a bucket list, in also_noteworthy or
\* in filtered_out when the structure is handed to the renderer.
C2_TerminalPlacement ==
    run.pc = "rendered" =>
        \A i \in 1..Len(run.papers) :
            run.papers[i].obj \in
                Objs(run.top_picks) \cup BucketObjs(run) \cup Objs(run.also_noteworthy)
                \cup Objs(run.filtered_out)

\* the history filter of this run has acted
HistoryFiltered ==
    \/ run.pc = "new_papers"
    \/ run.pc = "returned" /\ Len(run.fetched) > 0 /\ Len(run.papers) = 0

\* C8: in a non-force run, history-level dedup excludes a record exactly when
\* the ledger holds a version for its canonical id that is greater than or
\* equal to the record's version; a record with a greater version, or with an
\* id the ledger does not know, survives.
C8_HistoryDedup ==
    (HistoryFiltered /\ ~run.force) =>
        \A i \in 1..Len(run.fetched) :
            LET p == run.fetched[i]
                held == db_papers[p.arxiv_id] # NoRow /\ db_papers[p.arxiv_id] >= p.version
            IN  held <=> p.obj \notin Objs(run.papers)

\* a non-force run in which version 2 of a paper recorded at version 1 survives
\* and a paper recorded at its own version is excluded
C8_Witness ==
    /\ run.pc = "new_papers"
    /\ ~run.force
    /\ Len(run.fetched) = 2
    /\ Len(run.papers) = 1
    /\ db_papers[run.papers[1].arxiv_id] = 1
    /\ run.papers[1].version = 2
    /\ \E i \in 1..2 :
          /\ run.fetched[i].obj # run.papers[1].obj
          /\ db_papers[run.fetched[i].arxiv_id] = run.fetched[i].version

RecordedVersions(id) == {rv[2] : rv \in {r \in recorded : r[1] = id}}

\* the versions the papers of the model carry
Versions == {r.version : r \in RunRecords}

\* C9: after any sequence of save_papers operations, has_seen(id, v) is true
\* for every v less than or equal to a version recorded before for id, and
\* false for every v greater than all versions recorded for id.
C9_VersionMonotonicity ==
    \A id \in LedgerIds : \A v \in Versions :
        /\ (\E w \in RecordedVersions(id) : v <= w) => has_seen_paper(db_papers, id, v)
        /\ (\A w \in RecordedVersions(id) : v > w) => ~has_seen_paper(db_papers, id, v)


\* the arrivals of the run that batch-level dedup keeps (first arrival of each
\* identity) and that were published today
FreshArrivals ==
    {run.arrived[i].obj : i \in
        {k \in 1..Len(run.arrived) :
            /\ FirstNonEmpty(Candidates(run.arrived[k])) # Empty
            /\ \A j \in 1..(k - 1) :
                  FirstNonEmpty(Candidates(run.arrived[j])) #
                      FirstNonEmpty(Candidates(run.arrived[k]))
            /\ run.arrived[k].published # "old"}}

\* C13: in a force run the ledger is not queried and history-level dedup
\* excludes nothing, while batch-level dedup has been applied: the papers that
\* go on to classification are exactly the first arrivals of each identity.
C13_ForceBypass ==
    (run.force /\ run.pc \in {"new_papers", "returned"} /\ run.fetched_count > 0) =>
        /\ ~run.queried
        /\ Objs(run.papers) = FreshArrivals
        /\ Len(run.papers) = Cardinality(FreshArrivals)

\* a force run whose fetchers returned the same paper twice: one of the two
\* goes on, although the ledger holds this version of it
C13_Witness ==
    /\ run.force
    /\ run.pc = "new_papers"
    /\ Len(run.arrived) = 2
    /\ Len(run.papers) = 1
    /\ run.arrived[1].published = "today" /\ run.arrived[2].published = "today"
    /\ db_papers[run.papers[1].arxiv_id] >= run.papers[1].version


(***************************************************************************)
(* Claims on the tiered selector (SpecOrganize)                            *)
(***************************************************************************)

\* the final score of the input paper that is the dict object o
ScoreOf(o) == _calculate_final_score(org_in[o])

\* the place of the input paper o in the stable descending order: behind the
\* papers that score higher and the papers that score the same and came first
Rank(o) ==
    1 + Cardinality({q \in 1..Len(org_in) :
                        \/ ScoreOf(q) > ScoreOf(o)
                        \/ ScoreOf(q) = ScoreOf(o) /\ q < o})

\* C14: the top picks are the first min(top_picks_count, number of kept
\* papers) papers of the kept list in stable descending order of final_score
\* (equal scores in arrival order), and no other paper is marked a top pick;
\* with top_picks_count = 2 and scores 90, 80, 70, 60, 50 they are the 90 and
\* the 80 paper.
C14_TopPicks ==
    phase = "organized" =>
        LET n == Min(org_cfg.top_picks, Len(org_in))
        IN  /\ Len(org_out.top_picks) = n
            /\ \A k \in 1..n :
                  /\ Rank(org_out.top_picks[k].obj) = k
                  /\ org_out.top_picks[k].in_top_picks
                  /\ org_out.top_picks[k].final_score = ScoreOf(org_out.top_picks[k].obj)
            /\ \A i \in 1..Len(org_out.buckets) :
                  \A j \in 1..Len(org_out.buckets[i].papers) :
                      /\ Rank(org_out.buckets[i].papers[j].obj) > n
                      /\ ~org_out.buckets[i].papers[j].in_top_picks
            /\ \A j \in 1..Len(org_out.also_noteworthy) :
                  /\ Rank(org_out.also_noteworthy[j].obj) > n
                  /\ ~org_out.also_noteworthy[j].in_top_picks
            /\ (org_in = ExampleKept /\ org_cfg.top_picks = 2) =>
                  /\ org_out.top_picks[1].final_score = 900
                  /\ org_out.top_picks[2].final_score = 800
                  /\ Len(org_out.also_noteworthy) = 2

\* three kept papers, the second and third with the same, highest score: the
\* one top pick is the second
C14_Witness ==
    /\ phase = "organized"
    /\ Len(org_in) = 3
    /\ org_cfg.top_picks = 1
    /\ ScoreOf(2) = ScoreOf(3)
    /\ ScoreOf(1) < ScoreOf(2)
    /\ Len(org_out.top_picks) = 1
    /\ org_out.top_picks[1].obj = 2


\* the papers (dict objects) of the bucket list called name, if there is one
InBucketList(name) ==
    UNION {Objs(org_out.buckets[i].papers) :
              i \in {k \in 1..Len(org_out.buckets) : org_out.buckets[k].name = name}}

\* the configured bucket names a paper carries, as positions of the configured
\* order
Configured(o) == {k \in 1..Len(org_cfg.buckets) : org_cfg.buckets[k] \in org_in[o].buckets}

\* C15: a paper that is not a top pick and carries a configured bucket name
\* is in the list of the first such bucket in configured order and in no other
\* bucket list, whatever its score and whatever happened to other papers; a
\* paper that carries no configured bucket name is in no bucket list.
C15_FirstBucket ==
    phase = "organized" =>
        \A o \in 1..Len(org_in) :
            Rank(o) > Min(org_cfg.top_picks, Len(org_in)) =>
                \A k \in 1..Len(org_cfg.buckets) :
                    o \in InBucketList(org_cfg.buckets[k])
                        <=> (k \in Configured(o) /\ \A m \in Configured(o) : k <= m)


\* C16: a paper is in also_noteworthy exactly when it is not a top pick, is in
\* no bucket list, and its final_score is at least the noteworthy threshold
\* (60).
C16_Noteworthy ==
    phase = "organized" =>
        \A o \in 1..Len(org_in) :
            o \in Objs(org_out.also_noteworthy)
                <=> /\ o \notin Objs(org_out.top_picks)
                    /\ o \notin BucketObjs(org_out)
                    /\ ScoreOf(o) >= NoteworthyThreshold


(***************************************************************************)
(* Specification SpecClassify: one call of classify_single, for every      *)
(* behaviour of the classifier service over the attempts                   *)
(***************************************************************************)

\* the longest list handed to classify_batch
MaxClassified == 2

\* the papers of a list of n papers, as they come out of the heuristic stage
BatchIds == <<"p1", "p2", "p3", "p4", "p5">>
BatchPaper(i) ==
    [arxiv_id |-> BatchIds[i], keep |-> FALSE, relevance_score |-> 0,
     buckets |-> {}, error |-> FALSE]

\* what the service does for one paper of a list: it fails on every attempt,
\* it fails once and then answers, or it answers at once (keep or drop)
BatchServices ==
    {[k \in 1..MaxAttempts |-> TransientFailure],
     [k \in 1..MaxAttempts |->
         IF k = 1 THEN TransientFailure ELSE Answer(Annotation(TRUE, 80, {1}, FALSE))],
     [k \in 1..MaxAttempts |-> Answer(Annotation(TRUE, 80, {1}, FALSE))],
     [k \in 1..MaxAttempts |-> Answer(Annotation(FALSE, 20, {}, FALSE))]}

InitClassify ==
    /\ phase = "classify"
    /\ \/ \E service \in [1..MaxAttempts -> ServiceOutcomes] :
             cls = [NoClassifierCall EXCEPT !.pc = "call", !.service = service]
       \/ \E n \in 1..MaxClassified : \E services \in [1..n -> BatchServices] :
             cls = [NoClassifierCall EXCEPT !.pc = "batch",
                                            !.papers = [i \in 1..n |-> BatchPaper(i)],
                                            !.services = services]
    /\ HeurIdle /\ ScoreIdle /\ FetchIdle /\ OrgIdle /\ DbIdle /\ RunIdle

\* result = self.classify_single(paper)
ClassifySingle ==
    /\ phase = "classify"
    /\ cls.pc = "call"
    /\ cls' = [cls EXCEPT !.pc = "returned", !.out = classify_single(cls.service)]
    /\ UNCHANGED <<phase, heurVars, scoreVars, fetchVars, orgVars, dbVars, run>>

\* papers = self.classifier.classify_batch(papers)
ClassifyBatch ==
    /\ phase = "classify"
    /\ cls.pc = "batch"
    /\ cls' = [cls EXCEPT !.pc = "batch_returned",
                          !.batch = classify_batch(cls.papers, cls.services)]
    /\ UNCHANGED <<phase, heurVars, scoreVars, fetchVars, orgVars, dbVars, run>>

NextClassify == ClassifySingle \/ ClassifyBatch

SpecClassify == InitClassify /\ [][NextClassify]_vars

\* the attempts on which the service answers
Answered == {k \in 1..MaxAttempts : ~cls.service[k].raised}

\* C17: a classifier call that fails transiently is retried, up to 3 attempts;
\* the fallback annotation is produced only when all 3 attempts failed, and a
\* call that succeeds on a later attempt yields the classifier's answer of
\* that attempt.
C17_RetryThenFallback ==
    (phase = "classify" /\ cls.pc = "returned") =>
        /\ cls.out.result.error => (Answered = {} /\ cls.out.attempts = MaxAttempts)
        /\ \A k \in Answered :
              (\A j \in Answered : k <= j) =>
                  /\ cls.out.attempts = k
                  /\ cls.out.result = ClampRelevance(cls.service[k].result)


(***************************************************************************)
(* Claims on failures and empty runs (Spec)                                *)
(***************************************************************************)

\* C18: a paper whose classification failed carries keep = true and the error
\* marker, and in the structure handed to the renderer it is either among the
\* kept papers or in the excluded (filtered_out) list.
C18_FallbackVisible ==
    run.pc = "rendered" =>
        \A i \in 1..Len(run.papers) :
            run.papers[i].error =>
                /\ run.papers[i].keep
                /\ run.papers[i].obj \in Objs(run.kept_papers) \cup Objs(run.filtered_out)


\* C19: when has_seen_paper or save_papers raises, the run is logged as
\* failed with the error recorded, and no digest email has been sent in this
\* run.
C19_LedgerFailureFatal ==
    run.failure # None =>
        /\ run.pc = "failed"
        /\ run.logged = "error"
        /\ run.email # "sent"

\* C20: a run that fetched no paper, and a run outside test mode in which the
\* classification kept no paper, render no web view and no email and send no
\* email; the run returns.
C20_NoDigestOnEmpty ==
    /\ (run.pc # "idle" /\ run.fetched_count = 0) =>
          (run.pc = "returned" /\ ~run.rendered /\ run.email = None)
    /\ (~run.test_mode /\ (run.rendered \/ run.email # None)) =>
          /\ Len(run.kept_papers) > 0
          /\ \A i \in 1..Len(run.kept_papers) :
                \E j \in 1..Len(run.papers) :
                    /\ run.papers[j].obj = run.kept_papers[i].obj
                    /\ run.papers[j].keep
                    /\ run.papers[j].relevance_score >= MinRelevance

\* a run outside test mode has classified its papers, kept none and returned
C20_Witness ==
    /\ run.pc = "returned"
    /\ ~run.test_mode
    /\ Len(run.papers) = 2
    /\ \E i \in 1..2 : run.papers[i].error
    /\ Len(run.kept_papers) = 0
    /\ ~run.rendered
    /\ run.email = None


(***************************************************************************)
(* Further claims on the heuristic engine (SpecScoring)                    *)
(***************************************************************************)

\* the number of whole-word occurrences of the terms of a list in a text
RECURSIVE WordCount(_, _, _)
WordCount(terms, s, k) ==
    IF k > Len(terms) THEN 0
    ELSE Cardinality({i \in 1..Len(s) : MatchAt(terms[k], s, i)}) + WordCount(terms, s, k + 1)

\* the score the tiers and the co-occurrence bonus add up to
TierSum(s) ==
    20 * WordCount(BoostTerms.high, s, 1)
    + 10 * WordCount(BoostTerms.medium, s, 1)
    + 5 * WordCount(BoostTerms.low, s, 1)
    + (IF ContainsTerm(AiTerms, s) /\ ContainsTerm(ClinicalTerms, s) THEN 20 ELSE 0)

\* C21: the heuristic score of a text is min(100, 20 per high-tier match + 10
\* per medium-tier match + 5 per low-tier match + 20 if the text contains a
\* generic AI/ML term and a generic clinical term); the text "deep learning
\* neural network diagnosis patient" gets the bonus of 20.
C21_HeuristicScore ==
    hcall.fn = "_calculate_score" =>
        /\ hcall.result = Min(100, TierSum(text))
        /\ text = ExampleText => hcall.result = 20


\* the names of the buckets one of whose keywords is a whole word of the text,
\* in configured order
RECURSIVE WordBuckets(_, _)
WordBuckets(s, k) ==
    IF k > Len(Buckets) THEN <<>>
    ELSE (IF ContainsTerm(Buckets[k].keywords, s) THEN <<Buckets[k].name>> ELSE <<>>)
         \o WordBuckets(s, k + 1)

WordBoost(s) == \E level \in BoostLevels : ContainsTerm(BoostTerms[level], s)

\* C27: every term-match decision of the heuristic engine is a
\* case-insensitive whole-word match: the drop decision, the greylist gate,
\* the bucket hints, the boost matches and the co-occurrence bonus are those
\* of the terms that occur as whole words; a term that occurs only inside a
\* longer word counts nowhere.
C27_WholeWordMatching ==
    /\ hcall.fn = "_should_drop" =>
          hcall.result = (ContainsTerm(DropTerms, text) /\ ~WordBoost(text))
    /\ hcall.fn = "_detect_buckets" => hcall.result = WordBuckets(text, 1)
    /\ hcall.fn = "_calculate_score" =>
          /\ hcall.result >= Min(100, 20 * WordCount(BoostTerms.high, text, 1))
          /\ ~(ContainsTerm(AiTerms, text) /\ ContainsTerm(ClinicalTerms, text)) =>
                hcall.result = Min(100, 20 * WordCount(BoostTerms.high, text, 1)
                                        + 10 * WordCount(BoostTerms.medium, text, 1)
                                        + 5 * WordCount(BoostTerms.low, text, 1))
    /\ phase = "pre_filtered" =>
          \A i \in 1..Len(hf_papers) :
              LET s == PaperText(hf_papers[i])
              IN  (hf_papers[i].obj \in {hf_out[j].obj : j \in 1..Len(hf_out)})
                      <=> /\ ~(ContainsTerm(DropTerms, s) /\ ~WordBoost(s))
                          /\ ~(ContainsTerm(GreylistTerms, s)
                                  /\ ~ContainsTerm(GreylistKeepKeywords, s))


(***************************************************************************)
(* Claims on runs that follow each other, and on the heuristic stage of    *)
(* the run (Spec)                                                          *)
(***************************************************************************)

\* C22: once a non-force, non-test run has sent a digest that contained paper
\* id at version v, no later non-force run has a record with this id and a
\* version less than or equal to v in its digest.
C22_NoRedelivery ==
    (run.pc = "rendered" /\ ~run.force) =>
        LET digest == AllTiers(run)
        IN  \A i \in 1..Len(digest) : \A d \in delivered :
                ~(d[1] = digest[i].arxiv_id /\ digest[i].version <= d[2])

\* C23: whatever runs follow each other (normal, force, test mode), the
\* version the ledger stores for an id never decreases.
C23_StoredVersionMonotone ==
    [][\A id \in LedgerIds : db_papers'[id] >= db_papers[id]]_vars

\* the hard-drop rule on whole words: a hard-drop term and no boost term
HardDropped(p) ==
    ContainsTerm(DropTerms, PaperText(p)) /\ ~WordBoost(PaperText(p))

\* the papers of the run are with the classifier, or have been
AtClassifier == run.pc \in {"new_papers", "classified", "rendered", "sent", "done"}

\* C24: in a run, a paper whose title and abstract match a hard-drop term and
\* no boost term is not passed to the classifier and is in none of top picks,
\* buckets and noteworthy.
C24_HardDropExcluded ==
    /\ AtClassifier => \A i \in 1..Len(run.papers) : ~HardDropped(run.papers[i])
    /\ \A i \in 1..Len(AllTiers(run)) : ~HardDropped(AllTiers(run)[i])

\* C25: in a run, every paper whose title and abstract match a greylist term
\* and a transferable-method keyword carries greylisted = true when its final
\* score is computed, and the score includes the greylist penalty.
C25_GreylistPenaltyApplied ==
    run.pc = "rendered" =>
        \A i \in 1..Len(AllTiers(run)) :
            LET p == AllTiers(run)[i]
            IN  (ContainsTerm(GreylistTerms, PaperText(p))
                    /\ ContainsTerm(GreylistKeepKeywords, PaperText(p))) =>
                    /\ p.greylisted
                    /\ p.final_score = _calculate_final_score([p EXCEPT !.greylisted = TRUE])


\* the service fails for paper j of the list (its first attempt raises)
FailsFor(j) == cls.services[j][1].raised

\* C26: the classifier calls of a list are failure-isolated: when the call for
\* one paper fails, classify_batch still returns (it does not raise) one
\* result per input paper, in input order, and the annotation of every other
\* paper is what it is when the service answers for the failing paper
C26_FailureIsolated ==
    (phase = "classify" /\ cls.pc = "batch_returned") =>
        LET n == Len(cls.papers)
        IN  /\ ~cls.batch.raised
            /\ Len(cls.batch.classified) = n
            /\ \A i \in 1..n : cls.batch.classified[i].arxiv_id = cls.papers[i].arxiv_id
            /\ \A j \in 1..n : FailsFor(j) =>
                  \A s \in BatchServices : ~s[1].raised =>
                     LET other == classify_batch(cls.papers, [cls.services EXCEPT ![j] = s])
                     IN  /\ ~other.raised
                         /\ \A i \in (1..n) \ {j} :
                               cls.batch.classified[i] = other.classified[i]

\* a list of two papers has been classified: the service failed on every
\* attempt for the first and answered "keep, 80" for the second
C26_Witness ==
    /\ phase = "classify" /\ cls.pc = "batch_returned"
    /\ Len(cls.papers) = 2
    /\ \A k \in 1..MaxAttempts : cls.services[1][k].raised
    /\ ~cls.services[2][1].raised
    /\ ~cls.batch.raised
    /\ Len(cls.batch.classified) = 2
    /\ cls.batch.classified[2].relevance_score = 80
    /\ cls.batch.classified[2].keep

C29_ProcessedAreRecorded ==
    (run.pc \in {"returned", "done"} /\ ~run.test_mode) =>
        \A i \in 1..Len(run.papers) :
            has_seen_paper(db_papers, run.papers[i].arxiv_id, run.papers[i].version)

\* C30: a run-log row without error and with email_sent = true is written
\* only in a run whose send step reported success
C30_LoggedSentOnlyWhenSent ==
    (run.logged = "ok" /\ run.log_email_sent) => run.email = "sent"

====
